---- MODULE Spec2Model ----
(***************************************************************************)
(* Model of src/topology_utils.py: the helpers of a client of the OSG      *)
(* topology service (update_url_hostname, get_contact_list_info,           *)
(* filter_contacts) and the TopologyPoolManager class.                     *)
(*                                                                         *)
(* Python strings that the code takes apart (startswith, in, fnmatch,      *)
(* split, strip, lower, quote) are sequences of one-character strings;     *)
(* tags, paths, host names and exception names are plain strings.  Python  *)
(* dicts are functions; the iteration order of a dict's keys is not        *)
(* modelled.  An exception leaving a function is the field "raised" of the *)
(* function's outcome.                                                     *)
(***************************************************************************)
EXTENDS Integers, Sequences, FiniteSets, TLC

VARIABLES
    \* filter_contacts: one call
    fc_pc,        \* "call" before the call, "done" after it
    fc_args,      \* the args object
    fc_in,        \* the results argument
    fc_keyed,     \* keys of the local `results` after the key filter (line 128)
    fc_out,       \* outcome: [raised, value]
    \* get_contact_list_info: one call
    cl_pc,
    cl_in,        \* the contact_list argument (sequence of elements)
    cl_out,       \* outcome: [raised, value]
    \* the process of a TopologyPoolManager
    mgr_args,     \* the args object the methods are called with
    os,           \* euid, X509_USER_PROXY and the files that exist
    url_arg,      \* the url argument of a direct mangle_url call
    session,      \* self.session
    no_proxy,     \* os.environ['no_proxy'], or Absent
    authCalls,    \* number of get_auth_session calls so far
    voFetches,    \* number of VO summary requests issued so far
    requested,    \* the URL of the last request issued
    calls,        \* number of method calls so far
    last,         \* the last call: the method, what it raised, the state before
    walk,         \* what the last entity walk met
    ret           \* what the last call returned, under the kind of value it is

fcVars == <<fc_pc, fc_args, fc_in, fc_keyed, fc_out>>
clVars == <<cl_pc, cl_in, cl_out>>
mgrVars == <<mgr_args, os, url_arg, session, no_proxy, authCalls, voFetches, requested,
             calls, last, walk, ret>>

vars == <<fcVars, clVars, mgrVars>>

----------------------------------------------------------------------------
(* Python values *)

\* Python's None, for a string-valued slot (no character is "<None>")
None == <<"<None>">>

\* the truth value Python gives a string-valued or None slot
Truthy(v) == v # None /\ v # <<>>

NoException == "none"

----------------------------------------------------------------------------
(* str methods and fnmatch *)

\* s.startswith(p)
StartsWith(s, p) == Len(p) <= Len(s) /\ SubSeq(s, 1, Len(p)) = p

\* p in s, for strings
Contains(s, p) ==
    \E i \in 0..(Len(s) - Len(p)) : SubSeq(s, i + 1, i + Len(p)) = p

\* fnmatch.fnmatch(name, pat) on POSIX (normcase is the identity there):
\* "*" matches any run of characters, "?" any one character, any other
\* character itself.  The alphabet of the model holds no "[".
RECURSIVE FnMatch(_, _)
FnMatch(name, pat) ==
    IF pat = <<>> THEN name = <<>>
    ELSE IF Head(pat) = "*"
         THEN FnMatch(name, Tail(pat)) \/ (name # <<>> /\ FnMatch(Tail(name), pat))
    ELSE IF name = <<>> THEN FALSE
    ELSE (Head(pat) = "?" \/ Head(pat) = Head(name)) /\ FnMatch(Tail(name), Tail(pat))

----------------------------------------------------------------------------
(* filter_contacts *)

ALL == <<"a", "l", "l">>

\* x in lst, for a list of strings
InList(x, lst) == \E i \in 1..Len(lst) : lst[i] = x

\* the key filter with the two branches in the other order: the FQDN filter
\* is looked at first
KeyFilterMutant(args, results) ==
    IF Truthy(args.fqdn_filter)
    THEN {k \in DOMAIN results :
            FnMatch(k, args.fqdn_filter) \/ Contains(k, args.fqdn_filter)}
    ELSE IF Truthy(args.name_filter)
    THEN {k \in DOMAIN results :
            FnMatch(k, args.name_filter) \/ Contains(k, args.name_filter)}
    ELSE DOMAIN results

\* lines 117-128: the key filter.  The keys that stay in `results`.
KeyFilter(args, results) ==
    IF Truthy(args.name_filter)
    THEN {name \in DOMAIN results :
            ~(~FnMatch(name, args.name_filter) /\ ~Contains(name, args.name_filter))}
    ELSE IF Truthy(args.fqdn_filter)
    THEN {fqdn \in DOMAIN results :
            ~(~FnMatch(fqdn, args.fqdn_filter) /\ ~Contains(fqdn, args.fqdn_filter))}
    ELSE DOMAIN results

\* lines 136-138: the inner loop for one contact: one append per element of
\* args.contact_type that the contact's type starts with
RECURSIVE AppendsFor(_, _)
AppendsFor(contact, contact_types) ==
    IF contact_types = <<>> THEN <<>>
    ELSE (IF StartsWith(contact["ContactType"], Head(contact_types))
          THEN <<contact>> ELSE <<>>)
         \o AppendsFor(contact, Tail(contact_types))

\* lines 133-138: contact_list for one entity
RECURSIVE TypeContactList(_, _)
TypeContactList(contacts, contact_types) ==
    IF contacts = <<>> THEN <<>>
    ELSE AppendsFor(Head(contacts), contact_types)
         \o TypeContactList(Tail(contacts), contact_types)

\* the type filter without lines 139-140: an empty contact_list is stored
DropEmptyMutant(r) == r

\* lines 139-142: an entity whose contact_list is empty is deleted
DropEmpty(r) == [k \in {n \in DOMAIN r : r[n] # <<>>} |-> r[k]]

\* lines 130-142: the contact type filter
TypeFilter(args, r) ==
    IF ~InList(ALL, args.contact_type)
    THEN DropEmpty([name \in DOMAIN r |-> TypeContactList(r[name], args.contact_type)])
    ELSE r

\* line 146: the list comprehension
EmailContactList(contacts, emails) ==
    SelectSeq(contacts, LAMBDA contact : contact["Email"] \in emails)

\* contact['Email'] of a contact without the key raises KeyError
EmailKeyError(r) ==
    \E name \in DOMAIN r : \E i \in 1..Len(r[name]) : "Email" \notin DOMAIN r[name][i]

\* lines 111-152
filter_contacts(args, results) ==
    LET keyed == [k \in KeyFilter(args, results) |-> results[k]]
        typed == TypeFilter(args, keyed)
    IN  IF args.contact_emails # {}
        THEN IF EmailKeyError(typed)
             THEN [raised |-> "KeyError", value |-> <<>>]
             ELSE [raised |-> NoException,
                   value |-> DropEmpty([name \in DOMAIN typed |->
                                EmailContactList(typed[name], args.contact_emails)])]
        ELSE [raised |-> NoException, value |-> typed]

----------------------------------------------------------------------------
(* Inputs of filter_contacts *)

MaxContacts == 2
MaxTypes == 2

SeqsUpTo(S, n) == UNION {[1..m -> S] : m \in 0..n}

Mk(type, email) == [x \in {"ContactType", "Email"} |->
                        IF x = "ContactType" THEN type ELSE email]
MkNoEmail(type) == [x \in {"ContactType"} |-> type]

FcContacts ==
    { Mk(<<"s">>, <<"x">>), Mk(<<"s", "e">>, <<"y">>), MkNoEmail(<<"s", "e">>) }

FcKeys == { <<"a">>, <<"b", "a", "b">> }

FcResults ==
    UNION { [K -> SeqsUpTo(FcContacts, MaxContacts)] : K \in SUBSET FcKeys }

FcArgs ==
    [ name_filter    : {None, <<"a">>, <<"b", "*">>},
      fqdn_filter    : {None, <<"?">>},
      contact_type   : SeqsUpTo({ALL, <<"s">>, <<"s", "e">>}, MaxTypes),
      contact_emails : {{}, {<<"x">>}} ]

NoOutcome == [raised |-> "not called", value |-> <<>>]

InitFilter ==
    /\ fc_pc = "call"
    /\ fc_args \in FcArgs
    /\ fc_in \in FcResults
    /\ fc_keyed = {}
    /\ fc_out = NoOutcome

FilterContacts ==
    /\ fc_pc = "call"
    /\ fc_pc' = "done"
    /\ fc_keyed' = KeyFilter(fc_args, fc_in)
    /\ fc_out' = filter_contacts(fc_args, fc_in)
    /\ UNCHANGED <<fc_args, fc_in, clVars, mgrVars>>

----------------------------------------------------------------------------
(* get_contact_list_info *)

\* An XML element (xml.etree.ElementTree.Element): its tag, its text (None
\* when it has none) and its children in document order.
Elem(tag, text, kids) == [tag |-> tag, text |-> text, kids |-> kids]

\* str.lower(), character by character, over the alphabet of the model
LowerChar(c) ==
    CASE c = "A" -> "a"
      [] c = "C" -> "c"
      [] c = "E" -> "e"
      [] c = "F" -> "f"
      [] c = "G" -> "g"
      [] c = "S" -> "s"
      [] c = "T" -> "t"
      [] c = "Z" -> "z"
      [] OTHER   -> c

Lower(s) == [i \in 1..Len(s) |-> LowerChar(s[i])]

\* the local contact_list_type before its first assignment
Unbound == <<"<unbound>">>

\* line 105, for all sub-elements of one contact: contact_info[tag] = text
RECURSIVE CopyContents(_, _)
CopyContents(contact_info, contents) ==
    IF contents = <<>> THEN contact_info
    ELSE CopyContents(
            [x \in DOMAIN contact_info \cup {Head(contents).tag} |->
                IF x = Head(contents).tag THEN Head(contents).text
                ELSE contact_info[x]],
            Tail(contents))

\* the classification is set after the sub-elements are copied, not before
ContactInfoMutant(con, contact_list_type) ==
    [CopyContents([x \in {"ContactType"} |-> contact_list_type], con.kids)
        EXCEPT !["ContactType"] = contact_list_type]

\* lines 103-105: the record of one contact element
ContactInfo(con, contact_list_type) ==
    CopyContents([x \in {"ContactType"} |-> contact_list_type], con.kids)

\* lines 98-106: the loop over the children of contact_list, from the state
\* st = [type, value, raised] the loop is in
RECURSIVE ContactListLoop(_, _)
ContactListLoop(contact_list, st) ==
    IF contact_list = <<>> \/ st.raised # NoException THEN st
    ELSE
      LET contact == Head(contact_list)
          \* lines 99-100
          s1 == IF contact.tag = "ContactType" \/ contact.tag = "Type"
                THEN IF contact.text = None
                     THEN [st EXCEPT !.raised = "AttributeError"]
                     ELSE [st EXCEPT !.type = Lower(contact.text)]
                ELSE st
          \* lines 101-106
          s2 == IF s1.raised = NoException /\ contact.tag = "Contacts"
                THEN IF contact.kids # <<>> /\ s1.type = Unbound
                     THEN [s1 EXCEPT !.raised = "UnboundLocalError"]
                     ELSE [s1 EXCEPT !.value = s1.value \o
                             [i \in 1..Len(contact.kids) |->
                                 ContactInfo(contact.kids[i], s1.type)]]
                ELSE s1
      IN  ContactListLoop(Tail(contact_list), s2)

\* lines 97-108
get_contact_list_info(contact_list) ==
    LET st == ContactListLoop(contact_list,
                 [type |-> Unbound, value |-> <<>>, raised |-> NoException])
    IN  IF st.raised # NoException
        THEN [raised |-> st.raised, value |-> <<>>]
        ELSE [raised |-> NoException, value |-> st.value]

----------------------------------------------------------------------------
(* Inputs of get_contact_list_info *)

MaxSiblings == 3
MaxCons == 1

Leaf(tag, text) == Elem(tag, text, <<>>)

\* individual contact elements
ClContacts ==
    { Elem("Contact", None, <<Leaf("Email", <<"x">>)>>),
      Elem("Contact", None, <<Leaf("Name", <<"N">>), Leaf("Email", None)>>),
      Elem("Contact", None, <<Leaf("ContactType", <<"Z">>), Leaf("Email", <<"x">>)>>) }

\* the children a <ContactList> (Shape A) or <ContactType> (Shape B) can have
ClChildren ==
    { Leaf("ContactType", <<"S", "e">>), Leaf("Type", <<"A">>), Leaf("Type", None),
      Leaf("Other", <<"o">>) }
    \cup { Elem("Contacts", None, kids) : kids \in SeqsUpTo(ClContacts, MaxCons) }

InitNorm ==
    /\ cl_pc = "call"
    /\ cl_in \in SeqsUpTo(ClChildren, MaxSiblings)
    /\ cl_out = NoOutcome

GetContactListInfo ==
    /\ cl_pc = "call"
    /\ cl_pc' = "done"
    /\ cl_out' = get_contact_list_info(cl_in)
    /\ UNCHANGED <<cl_in, fcVars, mgrVars>>

----------------------------------------------------------------------------
(* Strings of the URL and of the service and VO tables, character by        *)
(* character                                                                *)

S_ce == <<"c", "e">>
S_srmv2 == <<"s", "r", "m", "v", "2">>
S_gridftp == <<"g", "r", "i", "d", "f", "t", "p">>
S_xrootd == <<"x", "r", "o", "o", "t", "d">>
S_perfsonar_bandwidth == <<"p", "e", "r", "f", "s", "o", "n", "a", "r", "-", "b", "a", "n", "d", "w", "i", "d", "t", "h">>
S_perfsonar_latency == <<"p", "e", "r", "f", "s", "o", "n", "a", "r", "-", "l", "a", "t", "e", "n", "c", "y">>
S_gums == <<"g", "u", "m", "s">>
S_service == <<"s", "e", "r", "v", "i", "c", "e">>
S_service_sel == <<"s", "e", "r", "v", "i", "c", "e", "_", "s", "e", "l", "[", "]">>
S_voown == <<"v", "o", "o", "w", "n">>
S_voown_sel == <<"v", "o", "o", "w", "n", "_", "s", "e", "l", "[", "]">>
S_on == <<"o", "n">>
S_active == <<"a", "c", "t", "i", "v", "e">>
S_active_value == <<"a", "c", "t", "i", "v", "e", "_", "v", "a", "l", "u", "e">>
S_disable == <<"d", "i", "s", "a", "b", "l", "e">>
S_disable_value == <<"d", "i", "s", "a", "b", "l", "e", "_", "v", "a", "l", "u", "e">>
S_all_vos == <<"a", "l", "l", "_", "v", "o", "s">>
S_0 == <<"0">>
S_1 == <<"1">>
S_foo123 == <<"f", "o", "o", "1", "2", "3">>

\* str(n) for a non-negative int
DigitChar(d) ==
    CASE d = 0 -> "0" [] d = 1 -> "1" [] d = 2 -> "2" [] d = 3 -> "3"
      [] d = 4 -> "4" [] d = 5 -> "5" [] d = 6 -> "6" [] d = 7 -> "7"
      [] d = 8 -> "8" [] d = 9 -> "9"

RECURSIVE StrOfInt(_)
StrOfInt(n) ==
    IF n < 10 THEN <<DigitChar(n)>>
    ELSE StrOfInt(n \div 10) \o <<DigitChar(n % 10)>>

\* s.split(","): the pieces between the commas, in order
RECURSIVE SplitLoop(_, _)
SplitLoop(s, piece) ==
    IF s = <<>> THEN <<piece>>
    ELSE IF Head(s) = "," THEN <<piece>> \o SplitLoop(Tail(s), <<>>)
    ELSE SplitLoop(Tail(s), Append(piece, Head(s)))

Split(s) == SplitLoop(s, <<>>)

\* s.strip(): without the leading and the trailing blanks
RECURSIVE LStrip(_)
LStrip(s) == IF s # <<>> /\ Head(s) = " " THEN LStrip(Tail(s)) ELSE s

RECURSIVE RStrip(_)
RStrip(s) ==
    IF s # <<>> /\ s[Len(s)] = " " THEN RStrip(SubSeq(s, 1, Len(s) - 1)) ELSE s

Strip(s) == RStrip(LStrip(s))

----------------------------------------------------------------------------
(* urllib.parse: a URL is its five components (urlsplit / urlunsplit); the  *)
(* query component is the sequence of its "&"-separated fields, a field a   *)
(* pair <<name, value>> as written in the URL, or <<>> for an empty field   *)

Url(scheme, netloc, path, query) ==
    [scheme |-> scheme, netloc |-> netloc, path |-> path, query |-> query]

\* quote_plus, character by character
QuoteChar(c) ==
    CASE c = "[" -> <<"%", "5", "B">>
      [] c = "]" -> <<"%", "5", "D">>
      [] c = " " -> <<"+">>
      [] OTHER   -> <<c>>

RECURSIVE QuotePlus(_)
QuotePlus(s) ==
    IF s = <<>> THEN <<>> ELSE QuoteChar(Head(s)) \o QuotePlus(Tail(s))

\* unquote of "+" and of the escapes quote_plus writes
RECURSIVE Unquote(_)
Unquote(s) ==
    IF s = <<>> THEN <<>>
    ELSE IF Len(s) >= 3 /\ SubSeq(s, 1, 3) = <<"%", "5", "B">>
         THEN <<"[">> \o Unquote(SubSeq(s, 4, Len(s)))
    ELSE IF Len(s) >= 3 /\ SubSeq(s, 1, 3) = <<"%", "5", "D">>
         THEN <<"]">> \o Unquote(SubSeq(s, 4, Len(s)))
    ELSE IF Head(s) = "+" THEN <<" ">> \o Unquote(Tail(s))
    ELSE <<Head(s)>> \o Unquote(Tail(s))

\* parse_qsl(query): the decoded (name, value) pairs; empty fields are skipped
RECURSIVE parse_qsl(_)
parse_qsl(query) ==
    IF query = <<>> THEN <<>>
    ELSE (IF Head(query) = <<>> THEN <<>>
          ELSE << <<Unquote(Head(query)[1]), Unquote(Head(query)[2])>> >>)
         \o parse_qsl(Tail(query))

\* the keys of parse_qs(query)
parse_qs_keys(query) ==
    LET l == parse_qsl(query) IN {l[i][1] : i \in 1..Len(l)}

\* urlencode(qs_list, doseq=True)
urlencode(qs_list) ==
    [i \in 1..Len(qs_list) |-> <<QuotePlus(qs_list[i][1]), QuotePlus(qs_list[i][2])>>]

\* lines 40-49
update_url_hostname(url, a) ==
    IF a.host = "" THEN url
    ELSE [url EXCEPT !.netloc = a.host]

----------------------------------------------------------------------------
(* The world outside the process *)

\* requests.codes.ok
HttpOk == 200

ProxyBypassDomain == ".opensciencegrid.org"

\* os.environ has no no_proxy
Absent == "<absent>"

\* what self.request does: it raises, or returns a response.  A response has
\* a status and a body; `compat` says whether it also has the attributes
\* status_code, text and content that lines 218-222 and 319-320 read.
Raises(exc) == [kind |-> "raise", exc |-> exc]
Response(status, compat, body) ==
    [kind |-> "response", status |-> status, compat |-> compat, body |-> body]

\* the body of a response that is not XML: ET.fromstring raises ParseError
NotXml == Elem("<not xml>", None, <<>>)

----------------------------------------------------------------------------
(* TopologyPoolManager.get_auth_session *)

\* lines 165-179: the paths of the certificate and of the key
CertPath(a, o) ==
    LET byEuid == IF o.euid = 0 THEN "/etc/grid-security/hostcert.pem"
                  ELSE "/tmp/x509up_u1000"
        byEnv  == IF o.X509_USER_PROXY # Absent THEN o.X509_USER_PROXY ELSE byEuid
    IN  IF a.cert # "" THEN a.cert ELSE byEnv

KeyPath(a, o) ==
    LET byEuid == IF o.euid = 0 THEN "/etc/grid-security/hostkey.pem"
                  ELSE "/tmp/x509up_u1000"
        byEnv  == IF o.X509_USER_PROXY # Absent THEN o.X509_USER_PROXY ELSE byEuid
    IN  IF a.key # "" THEN a.key ELSE byEnv

\* lines 161-195: the outcome of get_auth_session; getpass is what the
\* passphrase prompt does ("ok", or "EOFError" when nothing can be read)
get_auth_session(a, o, getpass) ==
    IF CertPath(a, o) \notin o.files
    THEN [raised |-> "InvalidPathError", detail |-> CertPath(a, o)]
    ELSE IF KeyPath(a, o) \notin o.files
    THEN [raised |-> "InvalidPathError", detail |-> KeyPath(a, o)]
    ELSE IF getpass # "ok"
    THEN [raised |-> getpass, detail |-> ""]
    ELSE [raised |-> NoException, detail |-> ""]

\* a session is established by every call
NeedsSessionMutant(m) == TRUE

\* lines 207 and 297: `not self.session`
NeedsSession(m) == ~m.session

\* lines 208 and 298: the assignment self.session = ..., given what
\* get_auth_session did (auth), from the manager state m
SessionAssigned(m, auth) ==
    IF auth.raised # NoException
    THEN [m |-> m, raised |-> auth.raised]
    ELSE [m |-> [m EXCEPT !.session = TRUE], raised |-> NoException]

\* lines 207-208 and 297-298: the session is established when there is none.
\* The manager state after it, and what it raised.
EnsureSession(m, a, o, getpass) ==
    IF NeedsSession(m)
    THEN SessionAssigned([m EXCEPT !.authCalls = @ + 1], get_auth_session(a, o, getpass))
    ELSE [m |-> m, raised |-> NoException]

\* lines 213-216 and 313-316
RestoreNoProxy(m, old_no_proxy) ==
    [m EXCEPT !.no_proxy = IF old_no_proxy # Absent THEN old_no_proxy ELSE Absent]

----------------------------------------------------------------------------
(* TopologyPoolManager.get_vo_map *)

VoSummaryUrl ==
    Url("https", "topology.opensciencegrid.org", "/vosummary/xml",
        << <<S_all_vos, S_on>>, <<S_active_value, S_1>> >>)

\* the text of the last child of element e with the tag, for a tag e has
ChildText(e, tag) ==
    e.kids[CHOOSE i \in 1..Len(e.kids) :
              /\ e.kids[i].tag = tag
              /\ \A n \in (i + 1)..Len(e.kids) : e.kids[n].tag # tag].text

HasChild(e, tag) == \E i \in 1..Len(e.kids) : e.kids[i].tag = tag

\* vo_map[name.lower()] = id
VoMapPut(vo_map, name, id) ==
    [x \in DOMAIN vo_map \cup {Lower(name)} |->
        IF x = Lower(name) THEN id ELSE vo_map[x]]

\* lines 225-234: the loop over the children of the root, from the map so far
RECURSIVE VoMapLoop(_, _)
VoMapLoop(children, vo_map) ==
    IF children = <<>> THEN [raised |-> NoException, value |-> vo_map]
    ELSE IF Head(children).tag # "VO"
    THEN [raised |-> "Exception", value |-> <<>>]
    ELSE IF HasChild(Head(children), "ID") /\ HasChild(Head(children), "Name")
    THEN IF ChildText(Head(children), "Name") = None
         THEN [raised |-> "AttributeError", value |-> <<>>]
         ELSE VoMapLoop(Tail(children),
                 VoMapPut(vo_map, ChildText(Head(children), "Name"),
                          ChildText(Head(children), "ID")))
    ELSE VoMapLoop(Tail(children), vo_map)

\* lines 218-236: from the response to the map
VoMapOfResponse(response) ==
    IF ~response.compat
    THEN [raised |-> "AttributeError", value |-> <<>>]
    ELSE IF response.status # HttpOk
    THEN [raised |-> "Exception", value |-> <<>>]
    ELSE IF response.body = NotXml
    THEN [raised |-> "ParseError", value |-> <<>>]
    ELSE IF response.body.tag # "VOSummary"
    THEN [raised |-> "Exception", value |-> <<>>]
    ELSE VoMapLoop(response.body.kids, << >>)

\* what the function leaves: the manager state m, and res raised or returned
Leaves(m, res) == [m |-> m, raised |-> res.raised, value |-> res.value]

\* lines 209-236: the request and what follows it, from the manager state m
VoMapRequest(m, old_no_proxy, voResp) ==
    IF voResp.kind = "raise"
    THEN [m |-> m, raised |-> voResp.exc, value |-> <<>>]
    ELSE Leaves(RestoreNoProxy(m, old_no_proxy), VoMapOfResponse(voResp))

\* get_vo_map with a cache: no request after the first one
VoMapWithSessionMutant(est, old_no_proxy, a, voResp) ==
    IF est.raised # NoException
    THEN [m |-> est.m, raised |-> est.raised, value |-> <<>>]
    ELSE IF est.m.voFetches > 0
    THEN [m |-> RestoreNoProxy(est.m, old_no_proxy), raised |-> NoException,
          value |-> <<>>]
    ELSE VoMapRequest([est.m EXCEPT !.voFetches = @ + 1,
                                    !.url = update_url_hostname(VoSummaryUrl, a)],
                      old_no_proxy, voResp)

\* lines 207-236, given what establishing the session did (est)
VoMapWithSession(est, old_no_proxy, a, voResp) ==
    IF est.raised # NoException
    THEN [m |-> est.m, raised |-> est.raised, value |-> <<>>]
    ELSE VoMapRequest([est.m EXCEPT !.voFetches = @ + 1,
                                    !.url = update_url_hostname(VoSummaryUrl, a)],
                      old_no_proxy, voResp)

\* lines 197-236, from the manager state m; w.getpass and w.voResp are what
\* the passphrase prompt and the request do
get_vo_map(m, a, o, w) ==
    VoMapWithSession(
        EnsureSession([m EXCEPT !.no_proxy = ProxyBypassDomain], a, o, w.getpass),
        m.no_proxy, a, w.voResp)

----------------------------------------------------------------------------
(* TopologyPoolManager.mangle_url *)

\* lines 239-246: SERVICE_IDS, in the order the dict is written
SERVICE_IDS ==
    << [name |-> S_ce, id |-> 1],
       [name |-> S_srmv2, id |-> 3],
       [name |-> S_gridftp, id |-> 5],
       [name |-> S_xrootd, id |-> 142],
       [name |-> S_perfsonar_bandwidth, id |-> 130],
       [name |-> S_perfsonar_latency, id |-> 130],
       [name |-> S_gums, id |-> 101] >>

\* ", ".join(self.SERVICE_IDS): the names the message lists, in order
KnownServiceNames == [i \in 1..Len(SERVICE_IDS) |-> SERVICE_IDS[i].name]

IsKnownService(service) == \E i \in 1..Len(SERVICE_IDS) : SERVICE_IDS[i].name = service

\* self.SERVICE_IDS.get(service), for a known service
ServiceId(service) ==
    SERVICE_IDS[CHOOSE i \in 1..Len(SERVICE_IDS) : SERVICE_IDS[i].name = service].id

\* line 264 without .lower()
NormalizeMutant(token) == Strip(token)

\* line 264
Normalize(token) == Lower(Strip(token))

\* lines 266-268: the exception for a service that is not known
UnknownService(service, qs_list) ==
    [raised |-> "Exception",
     detail |-> [unknown |-> service, known |-> KnownServiceNames],
     qs_list |-> qs_list]

\* lines 263-269: the loop over the services, from the list so far
RECURSIVE ServiceLoop(_, _)
ServiceLoop(tokens, qs_list) ==
    IF tokens = <<>> THEN [raised |-> NoException, detail |-> <<>>, qs_list |-> qs_list]
    ELSE IF ~IsKnownService(Normalize(Head(tokens)))
    THEN UnknownService(Normalize(Head(tokens)), qs_list)
    ELSE ServiceLoop(Tail(tokens),
            Append(qs_list,
                   <<S_service_sel, StrOfInt(ServiceId(Normalize(Head(tokens))))>>))

\* lines 278-280: the exception for a VO that is not known
UnknownVo(vo, vo_map, qs_list) ==
    [raised |-> "Exception",
     detail |-> [unknown |-> vo, known |-> DOMAIN vo_map],
     qs_list |-> qs_list]

\* lines 275-281: the loop over the VOs, from the list so far
RECURSIVE OwnerVoLoop(_, _, _)
OwnerVoLoop(tokens, vo_map, qs_list) ==
    IF tokens = <<>> THEN [raised |-> NoException, detail |-> <<>>, qs_list |-> qs_list]
    ELSE IF \/ Normalize(Head(tokens)) \notin DOMAIN vo_map
            \/ vo_map[Normalize(Head(tokens))] = None
    THEN UnknownVo(Normalize(Head(tokens)), vo_map, qs_list)
    ELSE OwnerVoLoop(Tail(tokens), vo_map,
            Append(qs_list, <<S_voown_sel, vo_map[Normalize(Head(tokens))]>>))

\* line 252: `not args.host`
NoHost(a) == a.host = ""

\* line 271: getattr(args, 'owner_vo', None)
OwnerVoGiven(a) == Truthy(a.owner_vo)

\* lines 260-269: the service filter, from the list of the URL's parameters
ServiceFilter(a, qs_keys, qs_list) ==
    IF Truthy(a.provides_service)
    THEN ServiceLoop(Split(a.provides_service),
            IF S_service \notin qs_keys
            THEN Append(qs_list, <<S_service, S_on>>)
            ELSE qs_list)
    ELSE [raised |-> NoException, detail |-> <<>>, qs_list |-> qs_list]

\* lines 283-285
Mangled(m, url, a, qs_list) ==
    [m |-> m, raised |-> NoException, detail |-> <<>>,
     value |-> [url EXCEPT !.netloc = a.host, !.query = urlencode(qs_list)]]

\* lines 273-285, given what the owner VO loop did (own)
MangleOwned(m, url, a, own) ==
    IF own.raised # NoException
    THEN [m |-> m, raised |-> own.raised, detail |-> own.detail, value |-> url]
    ELSE Mangled(m, url, a, own.qs_list)

\* lines 272-285, given what get_vo_map did (vm)
MangleWithVoMap(vm, url, a, qs_keys, qs_list) ==
    IF vm.raised # NoException
    THEN [m |-> vm.m, raised |-> vm.raised, detail |-> <<>>, value |-> url]
    ELSE MangleOwned(vm.m, url, a,
            OwnerVoLoop(Split(a.owner_vo), vm.value,
                IF S_voown \notin qs_keys
                THEN Append(qs_list, <<S_voown, S_on>>)
                ELSE qs_list))

\* lines 260-285, given what the service filter did (svc)
MangleFiltered(m, url, a, o, w, qs_keys, svc) ==
    IF svc.raised # NoException
    THEN [m |-> m, raised |-> svc.raised, detail |-> svc.detail, value |-> url]
    ELSE IF ~OwnerVoGiven(a)
    THEN Mangled(m, url, a, svc.qs_list)
    ELSE MangleWithVoMap(get_vo_map(m, a, o, w), url, a, qs_keys, svc.qs_list)

\* lines 247-285, from the manager state m
mangle_url(m, url, a, o, w) ==
    IF NoHost(a)
    THEN [m |-> m, raised |-> NoException, detail |-> <<>>, value |-> url]
    ELSE MangleFiltered(m, url, a, o, w, parse_qs_keys(url.query),
            ServiceFilter(a, parse_qs_keys(url.query), parse_qsl(url.query)))

----------------------------------------------------------------------------
(* TopologyPoolManager.get_contacts *)

\* lines 295-296
BaseUrl(urltype) ==
    Url("https", "topology.opensciencegrid.org",
        IF urltype = "vo" THEN "/vosummary/xml" ELSE "/rgsummary/xml",
        << <<>>, <<S_active, S_on>>, <<S_active_value, S_1>>,
           <<S_disable, S_on>>, <<S_disable_value, S_0>> >>)

\* lines 302-311: what leaves the except clause for the exception the request
\* raised: a ConnectionError whose cause has errno 22 becomes
\* IncorrectPasswordError, every other exception goes on as it is
RequestException(exc) ==
    IF exc = "ConnectionError(errno 22)" THEN "IncorrectPasswordError"
    ELSE IF exc = "ConnectionError(errno 111)" THEN "ConnectionError"
    ELSE IF exc = "ConnectionError()" THEN "ConnectionError"
    ELSE exc

Raised(m, exc) == [m |-> m, raised |-> exc, isNone |-> FALSE, value |-> NotXml]
ReturnsNone(m) == [m |-> m, raised |-> NoException, isNone |-> TRUE, value |-> NotXml]

\* lines 318-329: from the response to the root, in the manager state m;
\* isNone says that the function returns None
RootOfResponse(m, response, roottype) ==
    IF response.status # HttpOk
    THEN IF ~response.compat THEN Raised(m, "AttributeError") ELSE ReturnsNone(m)
    ELSE IF response.body = NotXml
    THEN Raised(m, "ParseError")
    ELSE IF response.body.tag # (IF roottype = "VO" THEN "VOSummary" ELSE "ResourceSummary")
    THEN ReturnsNone(m)
    ELSE [m |-> m, raised |-> NoException, isNone |-> FALSE, value |-> response.body]

\* lines 300-329, given what mangle_url did (mu)
ContactsRequest(mu, old_no_proxy, resp, roottype) ==
    IF mu.raised # NoException
    THEN Raised(mu.m, mu.raised)
    ELSE IF resp.kind = "raise"
    THEN Raised([mu.m EXCEPT !.url = mu.value], RequestException(resp.exc))
    ELSE RootOfResponse(RestoreNoProxy([mu.m EXCEPT !.url = mu.value], old_no_proxy),
                        resp, roottype)

\* lines 297-329, given what establishing the session did (est)
ContactsWithSession(est, old_no_proxy, a, o, w, urltype, roottype) ==
    IF est.raised # NoException
    THEN Raised(est.m, est.raised)
    ELSE ContactsRequest(mangle_url(est.m, BaseUrl(urltype), a, o, w),
                         old_no_proxy, w.resp, roottype)

\* lines 288-329, from the manager state m; w.resp is what the request does
get_contacts(m, a, o, w, urltype, roottype) ==
    ContactsWithSession(
        EnsureSession([m EXCEPT !.no_proxy = ProxyBypassDomain], a, o, w.getpass),
        m.no_proxy, a, o, w, urltype, roottype)

----------------------------------------------------------------------------
(* The entity walkers *)

NoInfo == [raised |-> NoException, value |-> <<>>]

\* contact_list_info.extend(one), for the outcome `one` of
\* get_contact_list_info
Extended(acc, one) ==
    IF one.raised # NoException
    THEN [raised |-> one.raised, value |-> <<>>]
    ELSE [raised |-> NoException, value |-> acc.value \o one.value]

\* lines 352-354 and 393-396: the loop over the children of <ContactTypes> or
\* <ContactLists>, from the list so far; onlyTag is the tag line 394 asks for,
\* "" when every child counts
RECURSIVE ExtendInfo(_, _, _)
ExtendInfo(lists, onlyTag, acc) ==
    IF lists = <<>> \/ acc.raised # NoException THEN acc
    ELSE IF onlyTag # "" /\ Head(lists).tag # onlyTag
    THEN ExtendInfo(Tail(lists), onlyTag, acc)
    ELSE ExtendInfo(Tail(lists), onlyTag,
            Extended(acc, get_contact_list_info(Head(lists).kids)))

\* one pass of the loop body of lines 348-354 and 387-396 for the child
\* `item`, on st = [name, fqdn, info]
EntityItem(item, listsTag, fqdnTag, onlyTag, st) ==
    [name |-> IF item.tag = "Name" THEN item.text ELSE st.name,
     fqdn |-> IF item.tag = fqdnTag THEN item.text ELSE st.fqdn,
     info |-> IF item.tag = listsTag THEN ExtendInfo(item.kids, onlyTag, st.info)
              ELSE st.info]

\* lines 348-354 (a VO) and 387-396 (a resource): the loop over the children
RECURSIVE EntityLoop(_, _, _, _, _)
EntityLoop(items, listsTag, fqdnTag, onlyTag, st) ==
    IF items = <<>> \/ st.info.raised # NoException THEN st
    ELSE EntityLoop(Tail(items), listsTag, fqdnTag, onlyTag,
            EntityItem(Head(items), listsTag, fqdnTag, onlyTag, st))

NewEntity == [name |-> None, fqdn |-> None, info |-> NoInfo]

\* results[key] = value
Put(results, key, value) ==
    [x \in DOMAIN results \cup {key} |-> IF x = key THEN value ELSE results[x]]

\* lines 356-357
VoResults(results, e) ==
    IF Truthy(e.name) /\ e.info.value # <<>>
    THEN Put(results, e.name, e.info.value)
    ELSE results

VoWalked(raised, isInt, malformed, value) ==
    [raised |-> raised, isInt |-> isInt, malformed |-> malformed, value |-> value]

\* lines 341-359: the loop over the children of the root, from the results so
\* far.  isInt says that the function returns the int 1, not a Result Set.
RECURSIVE VoWalk(_, _)
RECURSIVE VoWalkOn(_, _, _)
VoWalkOn(children, results, e) ==
    IF e.info.raised # NoException
    THEN VoWalked(e.info.raised, FALSE, FALSE, <<>>)
    ELSE VoWalk(Tail(children), VoResults(results, e))

VoWalk(children, results) ==
    IF children = <<>> THEN VoWalked(NoException, FALSE, FALSE, results)
    ELSE IF Head(children).tag # "VO"
    THEN VoWalked(NoException, TRUE, TRUE, <<>>)
    ELSE VoWalkOn(children, results,
            EntityLoop(Head(children).kids, "ContactTypes", "", "", NewEntity))

Walked(m, raised, noResult, isInt, malformed, value) ==
    [m |-> m, raised |-> raised, noResult |-> noResult, isInt |-> isInt,
     malformed |-> malformed, value |-> value]

\* lines 337-359, given what the walk did (w_out)
VoContactsWalked(m, w_out) ==
    Walked(m, w_out.raised, FALSE, w_out.isInt, w_out.malformed, w_out.value)

\* lines 337-359, given what get_contacts did (root)
VoContactsOf(root) ==
    IF root.raised # NoException
    THEN Walked(root.m, root.raised, FALSE, FALSE, FALSE, <<>>)
    ELSE IF root.isNone
    THEN Walked(root.m, NoException, TRUE, TRUE, FALSE, <<>>)
    ELSE VoContactsWalked(root.m, VoWalk(root.value.kids, << >>))

\* lines 332-359
get_vo_contacts(m, a, o, w) ==
    VoContactsOf(get_contacts(m, a, o, w, "vo", "VO"))

\* lines 398-402
ResourceResults(acc, e) ==
    IF e.info.raised # NoException
    THEN [acc EXCEPT !.raised = e.info.raised]
    ELSE IF e.info.value = <<>> THEN acc
    ELSE [raised  |-> NoException,
          by_name |-> IF Truthy(e.name) THEN Put(acc.by_name, e.name, e.info.value)
                      ELSE acc.by_name,
          by_fqdn |-> IF Truthy(e.fqdn) THEN Put(acc.by_fqdn, e.fqdn, e.info.value)
                      ELSE acc.by_fqdn]

\* lines 383-402: the loop over the resources of one <Resources>, from
\* acc = [raised, by_name, by_fqdn]
RECURSIVE ResourcesLoop(_, _)
ResourcesLoop(resources, acc) ==
    IF resources = <<>> \/ acc.raised # NoException THEN acc
    ELSE ResourcesLoop(Tail(resources),
            ResourceResults(acc,
                EntityLoop(Head(resources).kids, "ContactLists", "FQDN",
                           "ContactList", NewEntity)))

\* lines 380-402: the loop over the children of one resource group
RECURSIVE GroupLoop(_, _)
GroupLoop(children, acc) ==
    IF children = <<>> \/ acc.raised # NoException THEN acc
    ELSE GroupLoop(Tail(children),
            IF Head(children).tag # "Resources" THEN acc
            ELSE ResourcesLoop(Head(children).kids, acc))

NoResults == << <<>>, <<>> >>

ResourceWalked(raised, malformed, value) ==
    [raised |-> raised, malformed |-> malformed, value |-> value]

\* lines 375-404: the loop over the children of the root
RECURSIVE ResourceWalk(_, _)
ResourceWalk(children, acc) ==
    IF acc.raised # NoException THEN ResourceWalked(acc.raised, FALSE, NoResults)
    ELSE IF children = <<>>
    THEN ResourceWalked(NoException, FALSE, <<acc.by_name, acc.by_fqdn>>)
    ELSE IF Head(children).tag # "ResourceGroup"
    THEN ResourceWalked(NoException, TRUE, NoResults)
    ELSE ResourceWalk(Tail(children), GroupLoop(Head(children).kids, acc))

\* lines 373-404, given what the walk did (w_out)
ResourceContactsWalked(m, w_out) ==
    Walked(m, w_out.raised, FALSE, FALSE, w_out.malformed, w_out.value)

\* lines 370-404, given what get_contacts did (root)
ResourceContactsOf(root) ==
    IF root.raised # NoException
    THEN Walked(root.m, root.raised, FALSE, FALSE, FALSE, NoResults)
    ELSE IF root.isNone
    THEN Walked(root.m, NoException, TRUE, FALSE, FALSE, NoResults)
    ELSE ResourceContactsWalked(root.m,
            ResourceWalk(root.value.kids,
                [raised |-> NoException, by_name |-> << >>, by_fqdn |-> << >>]))

\* lines 362-404
get_resource_contacts_by_name_and_fqdn(m, a, o, w) ==
    ResourceContactsOf(get_contacts(m, a, o, w, "rg", "Resource"))

----------------------------------------------------------------------------
(* The manager as a state machine: one action per public method.  The args      *)
(* object and the process's surroundings (euid, X509_USER_PROXY, the files  *)
(* that exist) are those of the process and do not change.                  *)

MaxCalls == 2
MaxChildren == 2

\* the manager state the operators above work on
M == [session |-> session, no_proxy |-> no_proxy, authCalls |-> authCalls,
      voFetches |-> voFetches, url |-> requested]

SetM(m) ==
    /\ session' = m.session
    /\ no_proxy' = m.no_proxy
    /\ authCalls' = m.authCalls
    /\ voFetches' = m.voFetches
    /\ requested' = m.url

NoUrl == Url("", "", "", <<>>)

\* the documents the service answers with
Contact1 == Elem("Contact", None, <<Leaf("Email", <<"x">>)>>)

VoWithIdName(id, name) ==
    Elem("VO", None, <<Leaf("ID", id), Leaf("Name", name)>>)

VoWithContacts(name) ==
    Elem("VO", None,
         << Leaf("Name", name),
            Elem("ContactTypes", None,
                 << Elem("ContactType", None,
                         << Leaf("Type", <<"A">>),
                            Elem("Contacts", None, <<Contact1>>) >>) >>) >>)

VoWithoutType ==
    Elem("VO", None,
         << Leaf("Name", <<"Z">>),
            Elem("ContactTypes", None,
                 << Elem("ContactType", None,
                         << Elem("Contacts", None, <<Contact1>>) >>) >>) >>)

GroupWithResource(name, fqdn) ==
    Elem("ResourceGroup", None,
         << Leaf("GroupName", <<"E">>),
            Elem("Resources", None,
                 << Elem("Resource", None,
                         << Leaf("Name", name), Leaf("FQDN", fqdn),
                            Elem("ContactLists", None,
                                 << Elem("ContactList", None,
                                         << Leaf("ContactType", <<"S", "e">>),
                                            Elem("Contacts", None, <<Contact1>>) >>)
                                 >>) >>) >>) >>)

Junk == Leaf("Junk", None)

\* answers to the VO summary request of get_vo_map
VoSummaries ==
    { Elem("VOSummary", None, <<VoWithIdName(<<"3", "0">>, <<"C">>),
                                VoWithIdName(<<"7">>, <<"a">>)>>),
      Elem("VOSummary", None, <<VoWithIdName(<<"3", "0">>, <<"C">>), Junk>>),
      Elem("Error", None, <<>>),
      NotXml }

VoResponses ==
    { Raises("MaxRetryError"), Response(500, TRUE, NotXml),
      Response(HttpOk, FALSE, NotXml) }
    \cup { Response(HttpOk, TRUE, d) : d \in VoSummaries }

\* answers to the request of get_contacts
Summaries ==
    { Elem("VOSummary", None, <<VoWithContacts(<<"C">>)>>),
      Elem("ResourceSummary", None, <<GroupWithResource(<<"S">>, <<"E">>)>>),
      NotXml }

RequestExceptions ==
    { Raises("ConnectionError(errno 22)"), Raises("ConnectionError(errno 111)"),
      Raises("MaxRetryError") }

Responses ==
    RequestExceptions
    \cup { Response(500, c, NotXml) : c \in BOOLEAN }
    \cup { Response(HttpOk, TRUE, d) : d \in Summaries }

\* answers to the request of get_contacts, for the walkers
TopChildren ==
    { VoWithContacts(<<"C">>), VoWithContacts(None), VoWithoutType,
      GroupWithResource(<<"S">>, <<"E">>), GroupWithResource(<<"S">>, None), Junk }

WalkSummaries ==
    { Elem(root, None, kids) :
        root \in {"VOSummary", "ResourceSummary"},
        kids \in SeqsUpTo(TopChildren, MaxChildren) }
    \cup {NotXml}

WalkResponses ==
    RequestExceptions
    \cup { Response(500, c, NotXml) : c \in BOOLEAN }
    \cup { Response(HttpOk, TRUE, d) : d \in WalkSummaries }

\* the choices that the call can depend on
GetpassChoices == IF session THEN {"ok"} ELSE {"ok", "EOFError"}
VoRespChoices ==
    IF OwnerVoGiven(mgr_args) /\ ~NoHost(mgr_args) THEN VoResponses
    ELSE {Raises("MaxRetryError")}

World(getpass, voResp, resp) == [getpass |-> getpass, voResp |-> voResp, resp |-> resp]

\* the state after a call of the method op that left r
Returned(op, r, kind, value) ==
    /\ SetM(r.m)
    /\ calls' = calls + 1
    /\ last' = [op |-> op, raised |-> r.raised, kind |-> kind,
                before |-> no_proxy, sessionBefore |-> session,
                fetchesBefore |-> voFetches]
    /\ ret' = (kind :> value)
    /\ UNCHANGED <<mgr_args, os, url_arg, fcVars, clVars>>

ContactsReturned(r) ==
    Returned("get_contacts", r,
             IF r.raised # NoException THEN "raise"
             ELSE IF r.isNone THEN "None" ELSE "root",
             r.value)

GetContacts ==
    /\ calls < MaxCalls
    /\ walk' = walk
    /\ \E urltype \in {"vo", "rg"}, getpass \in GetpassChoices,
          voResp \in VoRespChoices, resp \in Responses :
          ContactsReturned(
              get_contacts(M, mgr_args, os, World(getpass, voResp, resp), urltype,
                           IF urltype = "vo" THEN "VO" ELSE "Resource"))

VoMapReturned(r) ==
    Returned("get_vo_map", r,
             IF r.raised # NoException THEN "raise" ELSE "dict", r.value)

GetVoMap ==
    /\ calls < MaxCalls
    /\ walk' = walk
    /\ \E getpass \in GetpassChoices, voResp \in VoResponses :
          VoMapReturned(get_vo_map(M, mgr_args, os, World(getpass, voResp, voResp)))

MangleReturned(r) ==
    Returned("mangle_url", r,
             IF r.raised # NoException THEN "raise" ELSE "url",
             IF r.raised # NoException THEN r.detail ELSE r.value)

MangleUrl ==
    /\ calls < MaxCalls
    /\ walk' = walk
    /\ \E getpass \in GetpassChoices, voResp \in VoRespChoices :
          MangleReturned(
              mangle_url(M, url_arg, mgr_args, os, World(getpass, voResp, voResp)))

WalkReturned(op, r, kind, value) ==
    /\ Returned(op, r, kind, value)
    /\ walk' = [noResult |-> r.noResult, malformed |-> r.malformed]

VoContactsReturned(r) ==
    WalkReturned("get_vo_contacts", r,
                 IF r.raised # NoException THEN "raise"
                 ELSE IF r.isInt THEN "int" ELSE "dict",
                 IF r.isInt THEN 1 ELSE r.value)

GetVoContacts ==
    /\ calls < MaxCalls
    /\ \E getpass \in GetpassChoices, voResp \in VoRespChoices, resp \in WalkResponses :
          VoContactsReturned(
              get_vo_contacts(M, mgr_args, os, World(getpass, voResp, resp)))

ResourceContactsReturned(r) ==
    WalkReturned("get_resource_contacts_by_name_and_fqdn", r,
                 IF r.raised # NoException THEN "raise" ELSE "pair", r.value)

GetResourceContactsByNameAndFqdn ==
    /\ calls < MaxCalls
    /\ \E getpass \in GetpassChoices, voResp \in VoRespChoices, resp \in WalkResponses :
          ResourceContactsReturned(
              get_resource_contacts_by_name_and_fqdn(
                  M, mgr_args, os, World(getpass, voResp, resp)))

----------------------------------------------------------------------------
(* Initial states *)

AllFiles ==
    { "/etc/grid-security/hostcert.pem", "/etc/grid-security/hostkey.pem",
      "/tmp/x509up_u1000", "/proxy", "/c.pem", "/k.pem" }

\* euid, X509_USER_PROXY and the files that exist
Surroundings ==
    { [euid |-> 0, X509_USER_PROXY |-> Absent, files |-> AllFiles],
      [euid |-> 0, X509_USER_PROXY |-> Absent,
       files |-> AllFiles \ {"/etc/grid-security/hostkey.pem"}],
      [euid |-> 1000, X509_USER_PROXY |-> "/proxy", files |-> AllFiles \ {"/c.pem"}] }

Args(host, cert, key, provides_service, owner_vo) ==
    [host |-> host, cert |-> cert, key |-> key,
     provides_service |-> provides_service, owner_vo |-> owner_vo]

NoLast == [op |-> "none", raised |-> NoException, kind |-> "none",
           before |-> Absent, sessionBefore |-> FALSE, fetchesBefore |-> 0]
NoWalk == [noResult |-> FALSE, malformed |-> FALSE]

\* the state after TopologyPoolManager() (lines 157-159)
InitManager ==
    /\ session = FALSE
    /\ authCalls = 0
    /\ voFetches = 0
    /\ requested = NoUrl
    /\ calls = 0
    /\ last = NoLast
    /\ walk = NoWalk
    /\ ret = ("none" :> <<>>)

ManagerIdle ==
    /\ InitManager
    /\ no_proxy = Absent
    /\ mgr_args = Args("", "", "", None, None)
    /\ os = [euid |-> 0, X509_USER_PROXY |-> Absent, files |-> {}]
    /\ url_arg = NoUrl

OwnerVos == {None, <<"C">>, <<"c", ",", "x">>}

InitMgr ==
    /\ InitManager
    /\ no_proxy \in {Absent, "localhost"}
    /\ os \in Surroundings
    /\ \E host \in {"", "other.example.org"},
          ck \in {<<"", "">>, <<"/c.pem", "/k.pem">>},
          provides_service \in {None, <<"C", "E">>, S_foo123},
          owner_vo \in OwnerVos :
          mgr_args = Args(host, ck[1], ck[2], provides_service, owner_vo)
    /\ url_arg = BaseUrl("rg")

ProvidedServices ==
    { None, <<>>, S_ce, <<"C", "E", ",", " ", "g", "u", "m", "s">>, <<" ", "x", "r", "o", "o", "t", "d", " ", ",", "c", "e">>, <<"p", "e", "r", "f", "s", "o", "n", "a", "r", "-", "l", "a", "t", "e", "n", "c", "y", ",", "G", "r", "i", "d", "F", "T", "P", ",", "s", "r", "m", "v", "2">>,
      <<"p", "e", "r", "f", "s", "o", "n", "a", "r", "-", "b", "a", "n", "d", "w", "i", "d", "t", "h">>, S_foo123, <<"c", "e", ",", "f", "o", "o", "1", "2", "3">>, <<"F", "o", "o", "1", "2", "3", " ", ",", "n", "o", "p", "e">>, <<"c", "e", ",">> }

InitUrl ==
    /\ InitManager
    /\ no_proxy \in {Absent, "localhost"}
    /\ os = [euid |-> 0, X509_USER_PROXY |-> Absent, files |-> AllFiles]
    /\ \E host \in {"other.example.org", ""},
          provides_service \in ProvidedServices,
          owner_vo \in {None, <<"C">>} :
          mgr_args = Args(host, "", "", provides_service, owner_vo)
    /\ url_arg \in { BaseUrl("vo"), BaseUrl("rg"),
                     [BaseUrl("rg") EXCEPT !.query = @ \o << <<S_service, S_on>> >>] }

InitWalk ==
    /\ InitManager
    /\ no_proxy \in {Absent, "localhost"}
    /\ os = [euid |-> 0, X509_USER_PROXY |-> Absent, files |-> AllFiles]
    /\ \E host \in {"", "other.example.org"}, owner_vo \in {None, <<"C">>} :
          mgr_args = Args(host, "", "", None, owner_vo)
    /\ url_arg = NoUrl

----------------------------------------------------------------------------
(* Specifications *)

FcIdle ==
    /\ fc_pc = "idle" /\ fc_keyed = {} /\ fc_out = NoOutcome
    /\ fc_args = <<>> /\ fc_in = <<>>

ClIdle == cl_pc = "idle" /\ cl_in = <<>> /\ cl_out = NoOutcome

\* filter_contacts on every input of FcArgs and FcResults
InitOfFilter == InitFilter /\ ClIdle /\ ManagerIdle
NextFilter == FilterContacts
SpecFilter == InitOfFilter /\ [][NextFilter]_vars

\* get_contact_list_info on every list of up to MaxSiblings children
InitOfNorm == InitNorm /\ FcIdle /\ ManagerIdle
NextNorm == GetContactListInfo
SpecNorm == InitOfNorm /\ [][NextNorm]_vars

\* a process that calls get_contacts, get_vo_map and mangle_url
InitOfMgr == InitMgr /\ FcIdle /\ ClIdle
NextMgr == GetContacts \/ GetVoMap \/ MangleUrl
SpecMgr == InitOfMgr /\ [][NextMgr]_vars

\* a process that calls mangle_url, over the service filters of ProvidedServices
InitOfUrl == InitUrl /\ FcIdle /\ ClIdle
NextUrl == MangleUrl
SpecUrl == InitOfUrl /\ [][NextUrl]_vars

\* a process that calls the entity walkers
InitOfWalk == InitWalk /\ FcIdle /\ ClIdle
NextWalk == GetVoContacts \/ GetResourceContactsByNameAndFqdn
SpecWalk == InitOfWalk /\ [][NextWalk]_vars

----------------------------------------------------------------------------
(* Claims about filter_contacts, checked under SpecFilter *)

FcReturned == fc_pc = "done" /\ fc_out.raised = NoException

\* the contact's type starts with at least one element of contact_types
MatchesSomePrefix(contact, contact_types) ==
    \E i \in 1..Len(contact_types) :
        StartsWith(contact["ContactType"], contact_types[i])

\* C5: with no "all" in contact_type (and no email filter after it), every
\* entity that passed the key filter maps to exactly the subsequence of its
\* input contacts whose ContactType starts with at least one supplied prefix,
\* each contact at most once and in input order, and is absent from the output
\* when that subsequence is empty.
C5_EachContactKeptOnce ==
    (FcReturned /\ ~InList(ALL, fc_args.contact_type) /\ fc_args.contact_emails = {})
    => /\ DOMAIN fc_out.value \subseteq fc_keyed
       /\ \A k \in fc_keyed :
            LET sub == SelectSeq(fc_in[k],
                         LAMBDA c : MatchesSomePrefix(c, fc_args.contact_type))
            IN  IF sub = <<>> THEN k \notin DOMAIN fc_out.value
                ELSE k \in DOMAIN fc_out.value /\ fc_out.value[k] = sub

\* C6 as stated: no entity key of a returned Result Set maps to an empty
\* sequence, whatever the input and the filter intents.
C6_NoEmptySequenceEver ==
    FcReturned => \A k \in DOMAIN fc_out.value : fc_out.value[k] # <<>>

\* C6 amended: a returned Result Set maps a key to an empty sequence only when
\* contact_type contains "all", no email filter is given, and the input
\* already mapped that key to an empty sequence; every entity that went
\* through the contact type stage or the email stage has at least one contact.
C6_EmptyOnlyIfUnfilteredInput ==
    FcReturned =>
        \A k \in DOMAIN fc_out.value :
            fc_out.value[k] = <<>> =>
                /\ fc_in[k] = <<>>
                /\ InList(ALL, fc_args.contact_type)
                /\ fc_args.contact_emails = {}

\* an entity with contacts passed the key filter, lost all its contacts in a
\* later stage and is absent from the output
C6_Witness ==
    /\ FcReturned
    /\ \E k \in fc_keyed : fc_in[k] # <<>> /\ k \notin DOMAIN fc_out.value

NameMatch(k, pat) == FnMatch(k, pat) \/ Contains(k, pat)

\* C9: with a name filter given, the keys kept by the key filter are exactly
\* the input keys that glob-match or contain the name pattern, whatever the
\* FQDN pattern is; the FQDN pattern decides only when no name filter is
\* given.  The keys of the returned Result Set are among the kept keys, and
\* are all of them when no later stage filters.
C9_NameFilterPrecedence ==
    fc_pc = "done" =>
        LET kept == IF Truthy(fc_args.name_filter)
                    THEN {k \in DOMAIN fc_in : NameMatch(k, fc_args.name_filter)}
                    ELSE IF Truthy(fc_args.fqdn_filter)
                    THEN {k \in DOMAIN fc_in : NameMatch(k, fc_args.fqdn_filter)}
                    ELSE DOMAIN fc_in
        IN  /\ fc_keyed = kept
            /\ fc_out.raised = NoException => DOMAIN fc_out.value \subseteq kept
            /\ (InList(ALL, fc_args.contact_type) /\ fc_args.contact_emails = {})
                 => DOMAIN fc_out.value = kept

\* both filters given; the name filter kept a key the FQDN pattern does not
\* match and dropped a key the FQDN pattern matches
C9_Witness ==
    /\ FcReturned
    /\ Truthy(fc_args.name_filter) /\ Truthy(fc_args.fqdn_filter)
    /\ \E k \in DOMAIN fc_out.value : ~NameMatch(k, fc_args.fqdn_filter)
    /\ \E k \in DOMAIN fc_in :
            NameMatch(k, fc_args.fqdn_filter) /\ k \notin fc_keyed

----------------------------------------------------------------------------
(* Claims about get_contact_list_info, checked under SpecNorm *)

IsClassification(e) == e.tag = "ContactType" \/ e.tag = "Type"

\* the list is as Shape A and Shape B have it: every classification element
\* has a text and every contact element comes after a classification element
ClWellFormed(cl) ==
    /\ \A j \in 1..Len(cl) : IsClassification(cl[j]) => cl[j].text # None
    /\ \A j \in 1..Len(cl) :
          (cl[j].tag = "Contacts" /\ cl[j].kids # <<>>)
            => \E m \in 1..(j - 1) : IsClassification(cl[m])

\* the contact elements of the list in document order, each with the index of
\* the Contacts container it is in
RECURSIVE DocOrder(_, _)
DocOrder(cl, j) ==
    IF j > Len(cl) THEN <<>>
    ELSE (IF cl[j].tag = "Contacts"
          THEN [i \in 1..Len(cl[j].kids) |-> [at |-> j, con |-> cl[j].kids[i]]]
          ELSE <<>>)
         \o DocOrder(cl, j + 1)

\* the text of the nearest classification element before index j
NearestClassification(cl, j) ==
    LET m == CHOOSE m \in 1..(j - 1) :
                /\ IsClassification(cl[m])
                /\ \A n \in (m + 1)..(j - 1) : ~IsClassification(cl[n])
    IN  cl[m].text

Tags(con) == {con.kids[i].tag : i \in 1..Len(con.kids)}

\* the text of the last sub-element of con with the tag
LastText(con, tag) ==
    LET i == CHOOSE i \in 1..Len(con.kids) :
                /\ con.kids[i].tag = tag
                /\ \A n \in (i + 1)..Len(con.kids) : con.kids[n].tag # tag
    IN  con.kids[i].text

\* the records are the contact elements in document order, each with its
\* sub-elements' tag -> text pairs
ClRecordsInDocumentOrder ==
    LET doc == DocOrder(cl_in, 1)
    IN  /\ cl_out.raised = NoException
        /\ Len(cl_out.value) = Len(doc)
        /\ \A i \in 1..Len(doc) :
              /\ DOMAIN cl_out.value[i] = {"ContactType"} \cup Tags(doc[i].con)
              /\ \A t \in Tags(doc[i].con) :
                    cl_out.value[i][t] = LastText(doc[i].con, t)

----------------------------------------------------------------------------
(* Claims about get_contacts and get_vo_map, checked under SpecMgr *)

\* the value that the last call returned
Result == ret[last.kind]

\* C1: after every call of get_contacts and of get_vo_map, however the call
\* ended, no_proxy has the value it had before the call, and is absent if it
\* was absent before.
C1_NoProxyRestoredOnEveryExit ==
    last.op \in {"get_contacts", "get_vo_map"} => no_proxy = last.before

\* the tokens of the service filter, trimmed and lowercased
ServiceTokens ==
    LET tokens == Split(mgr_args.provides_service)
    IN  [i \in 1..Len(tokens) |-> Lower(Strip(tokens[i]))]

HasUnknownService ==
    /\ Truthy(mgr_args.provides_service)
    /\ \E i \in 1..Len(ServiceTokens) : ~IsKnownService(ServiceTokens[i])

\* the call that has just ended needed the VO Map: it is get_vo_map itself,
\* or a mangle_url (alone or inside get_contacts) that has an alternate host,
\* a service filter that resolves and an owner_vo intent
NeededVoMap(op) ==
    \/ op = "get_vo_map"
    \/ /\ op \in {"get_contacts", "mangle_url"}
       /\ mgr_args.host # ""
       /\ ~HasUnknownService
       /\ Truthy(mgr_args.owner_vo)

CredentialErrors == {"InvalidPathError", "EOFError"}

\* C10: the Session is established by the first call that needs one and never
\* again.  Once self.session is set it stays set and get_auth_session is not
\* called again; get_contacts and get_vo_map call it when there is no
\* Session; a call in which it fails leaves the Session unestablished; and the
\* Session becomes established only by a call of it that found both paths.
C10_SessionLazyNeverRecreated ==
    [][ /\ (session => (session' /\ authCalls' = authCalls))
        /\ ((~session /\ last'.op \in {"get_contacts", "get_vo_map"})
              => authCalls' = authCalls + 1)
        /\ (last'.raised \in CredentialErrors
              => (~session' /\ authCalls' = authCalls + 1))
        /\ ((~session /\ session')
              => ( /\ authCalls' = authCalls + 1
                   /\ CertPath(mgr_args, os) \in os.files
                   /\ KeyPath(mgr_args, os) \in os.files )) ]_vars

\* a call failed credential resolution, and a later call ran with the Session
\* an earlier call had established
C10_Witness ==
    /\ calls = 2 /\ last.sessionBefore /\ session
    /\ authCalls = 1
    /\ last.op = "get_contacts" /\ last.kind = "root"

----------------------------------------------------------------------------
(* Claims about mangle_url, checked under SpecUrl *)

QueryOf(url) == parse_qsl(url.query)

\* the values of the parameters of the URL with the name, in order
ValuesOf(url, name) ==
    LET sel == SelectSeq(QueryOf(url), LAMBDA p : p[1] = name)
    IN  [i \in 1..Len(sel) |-> sel[i][2]]

\* C2: when the service filter names only known services, the returned URL
\* has one service_sel[] parameter per service, with the service's id, and a
\* service parameter, with or without an alternate host; without one the
\* network location is the one of the URL given.
C2_ServiceParametersWithOrWithoutHost ==
    (/\ last.op = "mangle_url" /\ last.raised = NoException
     /\ Truthy(mgr_args.provides_service) /\ ~HasUnknownService)
    => ( /\ ValuesOf(Result, S_service_sel)
              = [i \in 1..Len(ServiceTokens) |-> StrOfInt(ServiceId(ServiceTokens[i]))]
         /\ ValuesOf(Result, S_service) # <<>>
         /\ Result.netloc = IF mgr_args.host = "" THEN url_arg.netloc ELSE mgr_args.host )

FirstUnknownService ==
    ServiceTokens[CHOOSE i \in 1..Len(ServiceTokens) :
                     /\ ~IsKnownService(ServiceTokens[i])
                     /\ \A j \in 1..(i - 1) : IsKnownService(ServiceTokens[j])]

\* C3 as stated: a service filter with an unknown service name gives an
\* error that names the unknown service and lists exactly 6 known service
\* names.
C3_UnknownServiceListsSixNames ==
    (last.op = "mangle_url" /\ HasUnknownService)
    => ( /\ last.raised = "Exception"
         /\ Result.unknown = FirstUnknownService
         /\ Len(Result.known) = 6
         /\ \A i \in 1..Len(Result.known) : IsKnownService(Result.known[i]) )

\* C3 amended: with an alternate host, a service filter with an unknown
\* service name gives an error that names the first unknown service (trimmed
\* and lowercased) and lists the 7 names of the service table: ce, srmv2,
\* gridftp, xrootd, perfsonar-bandwidth, perfsonar-latency, gums.  Without an
\* alternate host mangle_url looks no service up and returns the URL as given.
C3_UnknownServiceListsSevenNames ==
    (last.op = "mangle_url" /\ HasUnknownService)
    => IF mgr_args.host # ""
       THEN /\ last.raised = "Exception"
            /\ Result.unknown = FirstUnknownService
            /\ Result.known = << S_ce, S_srmv2, S_gridftp, S_xrootd,
                              S_perfsonar_bandwidth, S_perfsonar_latency, S_gums >>
       ELSE last.raised = NoException /\ Result = url_arg

\* the error for "Foo123 ,nope": the unknown service is named in lowercase
C3_Witness ==
    /\ last.op = "mangle_url" /\ last.raised = "Exception"
    /\ mgr_args.provides_service = <<"F", "o", "o", "1", "2", "3", " ", ",", "n", "o", "p", "e">>
    /\ Result.unknown = S_foo123
    /\ Len(Result.known) = 7

----------------------------------------------------------------------------
(* Claims about the entity walkers, checked under SpecWalk *)

\* C8: a walk that meets a child with the wrong tag, or gets None from
\* get_contacts, does not raise and returns empty Result Sets: an empty
\* mapping from get_vo_contacts, two empty mappings from
\* get_resource_contacts_by_name_and_fqdn.
C8_WalkReturnsEmptyResultSets ==
    (walk.malformed \/ walk.noResult)
    => ( /\ last.raised = NoException
         /\ (last.op = "get_vo_contacts" => (last.kind = "dict" /\ Result = << >>))
         /\ (last.op = "get_resource_contacts_by_name_and_fqdn"
                => (last.kind = "pair" /\ Result = << <<>>, <<>> >>)) )

====
